---- MODULE Spec2Model ----
(***************************************************************************)
(* Model of the dice session of multi_dice_roller.py: the reactive state   *)
(* of DiceRollerApp, its action_* handlers, the watchers they trigger and  *)
(* the concurrent roll driven by DiceAnimationController.                  *)
(*                                                                         *)
(* Die indices are 0-based as in the source; current_results is a TLA+     *)
(* sequence, so die i is element i+1.                                      *)
(***************************************************************************)
EXTENDS Integers, Sequences, FiniteSets, TLC

\* ---------------------------------------------------------------- constants
MAX_DICE == 8
MIN_DICE == 1
\* number of faces: secrets.randbelow(6) + 1
FACES == 6

\* ------------------------------------------------------------------- bounds
\* largest dice count the inputs ask for
MaxCount == 2
\* completed rolls after which no further roll is started
MaxRolls == 2
\* tasks of failed rolls that may still be running at the same time
MaxOrphans == 1
\* longest results list passed to a function called directly
MaxLen == 4
\* largest count in a frequency mapping passed to format_frequencies
MaxFreq == 2
\* how far below 0 and above MAX_DICE the counts passed to
\* get_grid_layout_dimensions go
MaxBeyond == 3

\* ---------------------------------------------------------------- variables
VARIABLES
    dice_count,               \* reactive dice_count
    is_rolling,               \* reactive is_rolling
    current_results,          \* reactive current_results
    current_sum,              \* reactive current_sum
    current_frequencies_str,  \* reactive current_frequencies_str
    selected_die_index,       \* reactive selected_die_index
    locked_dice,              \* reactive locked_dice
    app_roll_count,           \* reactive app_roll_count
    dice_widgets,             \* len(self.dice_widgets)
    mounted,                  \* the app is mounted and its reactives initialised
    notification,             \* the message of the last self.notify call
    returned_early,           \* the last handler returned at its is_rolling check
    unlocked_indices,         \* local unlocked_indices of the roll in flight
    tasks,                    \* the tasks gathered by the roll in flight
    orphans,                  \* running tasks whose roll has already returned
    rolls_in_flight,          \* action_roll_unlocked_dice coroutines suspended at the await
    fn_args,                  \* argument of a direct call of a module-level function
    fn_result                 \* the function called directly and the value it returned

vars == <<dice_count, is_rolling, current_results, current_sum,
          current_frequencies_str, selected_die_index, locked_dice,
          app_roll_count, dice_widgets, mounted, notification, returned_early,
          unlocked_indices, tasks, orphans, rolls_in_flight, fn_args,
          fn_result>>

session == <<dice_count, current_results, locked_dice, selected_die_index,
             app_roll_count>>
stats == <<current_sum, current_frequencies_str>>
roll_state == <<unlocked_indices, tasks, orphans, rolls_in_flight>>
calls == <<fn_args, fn_result>>

\* ------------------------------------------------------------ pure helpers
Ones(n) == [i \in 1..n |-> 1]

RECURSIVE SumSeq(_)
SumSeq(s) == IF s = <<>> THEN 0 ELSE Head(s) + SumSeq(Tail(s))

\* str(count) for the counts a session can show
IntStr(n) == CASE n = 0 -> "0" [] n = 1 -> "1" [] n = 2 -> "2" [] n = 3 -> "3"
               [] n = 4 -> "4" [] n = 5 -> "5" [] n = 6 -> "6" [] n = 7 -> "7"
               [] n = 8 -> "8" [] OTHER -> "9+"

\* dice_emojis of format_frequencies, index 0 unused
dice_emojis == <<"d1", "d2", "d3", "d4", "d5", "d6">>

NoResultsYet == <<"No results yet">>

\* the loop of calculate_frequencies over results[i..], from the mapping
\* frequencies
RECURSIVE CountFaces(_, _, _)
CountFaces(results, i, frequencies) ==
    IF i > Len(results) THEN frequencies
    ELSE LET result == results[i]
         IN  CountFaces(results, i + 1,
                        IF 1 <= result /\ result <= 6
                        THEN [frequencies EXCEPT ![result] = @ + 1]
                        ELSE frequencies)

\* a loop that counts the results above 1 only
RECURSIVE CountFacesAboveOne(_, _, _)
CountFacesAboveOne(results, i, frequencies) ==
    IF i > Len(results) THEN frequencies
    ELSE LET result == results[i]
         IN  CountFacesAboveOne(results, i + 1,
                        IF 1 < result /\ result <= 6
                        THEN [frequencies EXCEPT ![result] = @ + 1]
                        ELSE frequencies)

calculate_frequencies_above_one(results) ==
    CountFacesAboveOne(results, 1, [f \in 1..FACES |-> 0])

calculate_frequencies(results) ==
    CountFaces(results, 1, [f \in 1..FACES |-> 0])

\* parts of format_frequencies for the faces from..FACES, already joined
RECURSIVE JoinParts(_, _, _)
JoinParts(frequencies, face, first) ==
    IF face > FACES THEN <<>>
    ELSE IF face \in DOMAIN frequencies /\ frequencies[face] > 0
         THEN (IF first THEN <<>> ELSE <<" | ">>)
              \o <<IntStr(frequencies[face]), "x", dice_emojis[face]>>
              \o JoinParts(frequencies, face + 1, FALSE)
         ELSE JoinParts(frequencies, face + 1, first)

\* format_frequencies without the sentinel for an empty list of parts
format_frequencies_no_sentinel(frequencies) == JoinParts(frequencies, 1, TRUE)

format_frequencies(frequencies) ==
    LET joined == JoinParts(frequencies, 1, TRUE)
    IN  IF joined = <<>> THEN NoResultsYet ELSE joined

\* update_stats_display: <<current_sum, current_frequencies_str>> for results
update_stats_display(results) ==
    IF results = <<>>
    THEN <<0, NoResultsYet>>
    ELSE <<SumSeq(results), format_frequencies(calculate_frequencies(results))>>

\* get_grid_layout_dimensions has no raise: every path ends in a return
GridLayoutRaises(n) == FALSE

\* a fallback that rounds the rows of more than 8 dice down
get_grid_layout_dimensions_rounding_down(n) ==
    CASE n = 1 -> <<1, 1>> [] n = 2 -> <<2, 1>> [] n = 3 -> <<3, 1>>
      [] n = 4 -> <<2, 2>> [] n = 5 -> <<3, 2>> [] n = 6 -> <<3, 2>>
      [] n = 7 -> <<4, 2>> [] n = 8 -> <<4, 2>>
      [] n = 0 -> <<0, 0>>
      [] n > 8 -> <<4, n \div 4>>
      [] OTHER -> <<1, 1>>

\* get_grid_layout_dimensions: <<columns, rows>> of the grid of n dice
get_grid_layout_dimensions(n) ==
    CASE n = 1 -> <<1, 1>> [] n = 2 -> <<2, 1>> [] n = 3 -> <<3, 1>>
      [] n = 4 -> <<2, 2>> [] n = 5 -> <<3, 2>> [] n = 6 -> <<3, 2>>
      [] n = 7 -> <<4, 2>> [] n = 8 -> <<4, 2>>
      [] n = 0 -> <<0, 0>>
      [] n > 8 -> <<4, (n + 3) \div 4>>
      [] OTHER -> <<1, 1>>

\* a column table that puts four dice in one row
cols_map_one_row(n) == CASE n = 1 -> 1 [] n = 2 -> 2 [] n = 3 -> 3 [] n = 4 -> 4
                         [] n = 5 -> 3 [] n = 6 -> 3 [] n = 7 -> 4 [] n = 8 -> 4
                         [] OTHER -> 1

\* cols_map of action_navigate_dice with its default of 1
cols_map(n) == CASE n = 1 -> 1 [] n = 2 -> 2 [] n = 3 -> 3 [] n = 4 -> 2
                 [] n = 5 -> 3 [] n = 6 -> 3 [] n = 7 -> 4 [] n = 8 -> 4
                 [] OTHER -> 1

Min(a, b) == IF a < b THEN a ELSE b
Max(a, b) == IF a > b THEN a ELSE b

\* number of widgets update_dice_grid_display leaves in dice_widgets
update_dice_grid_display(count) == IF count <= 0 THEN 0 ELSE count

\* ---------------------------------------------------------------- watchers
\* current_results assigned by watch_dice_count
WatchCountResults(new_value) ==
    IF new_value > 0 THEN Ones(new_value) ELSE <<>>

\* a watcher without the clamp of selected_die_index
WatchCountSelectedUnclamped(selected, new_value) == selected

\* selected_die_index after the clamp of watch_dice_count
WatchCountSelected(selected, new_value) ==
    IF selected >= new_value /\ new_value > 0 THEN new_value - 1
    ELSE IF new_value = 0 THEN 0
    ELSE selected

\* locked_dice is not assigned by watch_dice_count
WatchCountLocked(locked, new_value) == locked

\* a watcher that keeps the faces of the surviving dice and adds 1s
SetDiceCountKeepingFaces(new_value) ==
    /\ dice_count' = new_value
    /\ dice_widgets' = update_dice_grid_display(new_value)
    /\ current_results' = [i \in 1..new_value |->
                              IF i <= Len(current_results)
                              THEN current_results[i] ELSE 1]
    /\ selected_die_index' = WatchCountSelected(selected_die_index, new_value)
    /\ locked_dice' = WatchCountLocked(locked_dice, new_value)
    /\ current_sum' = update_stats_display(current_results')[1]
    /\ current_frequencies_str' = update_stats_display(current_results')[2]

\* the assignment self.dice_count = new_value with the watcher it triggers
SetDiceCount(new_value) ==
    /\ dice_count' = new_value
    /\ dice_widgets' = update_dice_grid_display(new_value)
    /\ current_results' = WatchCountResults(new_value)
    /\ selected_die_index' = WatchCountSelected(selected_die_index, new_value)
    /\ locked_dice' = WatchCountLocked(locked_dice, new_value)
    /\ current_sum' = update_stats_display(current_results')[1]
    /\ current_frequencies_str' = update_stats_display(current_results')[2]

\* an assignment of current_results whose watcher leaves the statistics
SetResultsStaleStats(new_results) ==
    /\ current_results' = new_results
    /\ UNCHANGED stats

\* the assignment self.current_results = new_results with watch_current_results
SetResults(new_results) ==
    /\ current_results' = new_results
    /\ current_sum' = update_stats_display(new_results)[1]
    /\ current_frequencies_str' = update_stats_display(new_results)[2]

\* -------------------------------------------------------------------- Init
\* no module-level function is called directly
NoCall == [fn |-> "none", raised |-> FALSE, value |-> 0]

\* the class-level defaults of the reactives, before the app is mounted
ReactiveDefaults ==
    /\ dice_count = 1
    /\ is_rolling = FALSE
    /\ current_results = <<>>
    /\ current_sum = 0
    /\ current_frequencies_str = NoResultsYet
    /\ selected_die_index = 0
    /\ locked_dice = {}
    /\ app_roll_count = 0
    /\ dice_widgets = 0
    /\ mounted = FALSE
    /\ notification = "none"
    /\ returned_early = FALSE
    /\ unlocked_indices = <<>>
    /\ tasks = <<>>
    /\ orphans = 0
    /\ rolls_in_flight = 0

\* the app before it is mounted; no function is called directly
Init ==
    /\ ReactiveDefaults
    /\ fn_args = NoCall
    /\ fn_result = NoCall

\* mounting with reactives that do not call their watchers at initialisation:
\* on_mount builds the widgets and the statistics of the default results
MountWithoutWatchers ==
    /\ ~mounted
    /\ mounted' = TRUE
    /\ dice_widgets' = update_dice_grid_display(dice_count)
    /\ current_sum' = update_stats_display(current_results)[1]
    /\ current_frequencies_str' = update_stats_display(current_results)[2]
    /\ UNCHANGED <<session, is_rolling, notification, returned_early,
                   roll_state>>
    /\ UNCHANGED calls

\* Mounting initialises the reactives, which calls every watcher once with
\* the default as old and new value, so watch_dice_count(1, 1) assigns
\* current_results = [1]; on_mount then builds the widgets and the stats.
\* No handler runs before the app is mounted.
Mount ==
    /\ ~mounted
    /\ mounted' = TRUE
    /\ SetDiceCount(dice_count)
    /\ UNCHANGED <<is_rolling, app_roll_count, notification, returned_early,
                   roll_state>>
    /\ UNCHANGED calls

\* ------------------------------------------------------- dice count actions
\* action_add_die with a limit check that lets a die beyond MAX_DICE in
AddDieBeyondMax(cap) ==
    /\ mounted
    /\ returned_early' = is_rolling
    /\ IF is_rolling
       THEN UNCHANGED <<session, stats, dice_widgets, notification>>
       ELSE IF dice_count <= MAX_DICE
            THEN /\ dice_count < cap + 1
                 /\ SetDiceCount(dice_count + 1)
                 /\ notification' = "added_die"
                 /\ UNCHANGED app_roll_count
            ELSE /\ notification' = "maximum_dice"
                 /\ UNCHANGED <<session, stats, dice_widgets>>
    /\ UNCHANGED <<is_rolling, mounted, roll_state>>
    /\ UNCHANGED calls

\* action_add_die, explored while dice_count is below cap
AddDie(cap) ==
    /\ mounted
    /\ returned_early' = is_rolling
    /\ IF is_rolling
       THEN UNCHANGED <<session, stats, dice_widgets, notification>>
       ELSE IF dice_count < MAX_DICE
            THEN /\ dice_count < cap
                 /\ SetDiceCount(dice_count + 1)
                 /\ notification' = "added_die"
                 /\ UNCHANGED app_roll_count
            ELSE /\ notification' = "maximum_dice"
                 /\ UNCHANGED <<session, stats, dice_widgets>>
    /\ UNCHANGED <<is_rolling, mounted, roll_state>>
    /\ UNCHANGED calls

action_add_die == AddDie(MaxCount)

\* action_remove_die with 0 as the least number of dice
action_remove_die_to_zero ==
    /\ mounted
    /\ returned_early' = is_rolling
    /\ IF is_rolling
       THEN UNCHANGED <<session, stats, dice_widgets, notification>>
       ELSE IF dice_count > 0
            THEN /\ SetDiceCount(dice_count - 1)
                 /\ notification' = "removed_die"
                 /\ UNCHANGED app_roll_count
            ELSE /\ notification' = "minimum_dice"
                 /\ UNCHANGED <<session, stats, dice_widgets>>
    /\ UNCHANGED <<is_rolling, mounted, roll_state>>
    /\ UNCHANGED calls

\* action_remove_die with a limit check that lets the last die go
action_remove_die_below_min ==
    /\ mounted
    /\ returned_early' = is_rolling
    /\ IF is_rolling
       THEN UNCHANGED <<session, stats, dice_widgets, notification>>
       ELSE IF dice_count >= MIN_DICE
            THEN /\ SetDiceCount(dice_count - 1)
                 /\ notification' = "removed_die"
                 /\ UNCHANGED app_roll_count
            ELSE /\ notification' = "minimum_dice"
                 /\ UNCHANGED <<session, stats, dice_widgets>>
    /\ UNCHANGED <<is_rolling, mounted, roll_state>>
    /\ UNCHANGED calls

action_remove_die ==
    /\ mounted
    /\ returned_early' = is_rolling
    /\ IF is_rolling
       THEN UNCHANGED <<session, stats, dice_widgets, notification>>
       ELSE IF dice_count > MIN_DICE
            THEN /\ SetDiceCount(dice_count - 1)
                 /\ notification' = "removed_die"
                 /\ UNCHANGED app_roll_count
            ELSE /\ notification' = "minimum_dice"
                 /\ UNCHANGED <<session, stats, dice_widgets>>
    /\ UNCHANGED <<is_rolling, mounted, roll_state>>
    /\ UNCHANGED calls

\* counts the callers ask for: the valid ones up to MaxCount, 0 and MAX_DICE+1
CountInputs == (0..MaxCount) \cup {MAX_DICE + 1}
\* every count from one below MIN_DICE to one above MAX_DICE
AllCounts == (MIN_DICE - 1)..(MAX_DICE + 1)

\* action_set_dice_count without the test that the count differs
action_set_dice_count_always(count) ==
    /\ mounted
    /\ returned_early' = is_rolling
    /\ IF is_rolling
       THEN UNCHANGED <<session, stats, dice_widgets, notification>>
       ELSE IF MIN_DICE <= count /\ count <= MAX_DICE
            THEN /\ SetDiceCount(count)
                 /\ notification' = "set_dice_count"
                 /\ UNCHANGED app_roll_count
            ELSE /\ notification' = "count_out_of_range"
                 /\ UNCHANGED <<session, stats, dice_widgets>>
    /\ UNCHANGED <<is_rolling, mounted, roll_state>>
    /\ UNCHANGED calls

\* a range check that lets the count 0 through
CountInRangeFromZero(count) == 0 <= count /\ count <= MAX_DICE

\* the range check of action_set_dice_count
CountInRange(count) == MIN_DICE <= count /\ count <= MAX_DICE

action_set_dice_count(count) ==
    /\ mounted
    /\ returned_early' = is_rolling
    /\ IF is_rolling
       THEN UNCHANGED <<session, stats, dice_widgets, notification>>
       ELSE IF CountInRange(count)
            THEN IF dice_count # count
                 THEN /\ SetDiceCount(count)
                      /\ notification' = "set_dice_count"
                      /\ UNCHANGED app_roll_count
                 ELSE UNCHANGED <<session, stats, dice_widgets, notification>>
            ELSE /\ notification' = "count_out_of_range"
                 /\ UNCHANGED <<session, stats, dice_widgets>>
    /\ UNCHANGED <<is_rolling, mounted, roll_state>>
    /\ UNCHANGED calls

\* action_reset_dice as in the revision that keeps the locks
action_reset_dice_keeping_locks ==
    /\ mounted
    /\ returned_early' = is_rolling
    /\ IF is_rolling
       THEN UNCHANGED <<session, stats, notification>>
       ELSE /\ SetResults(IF dice_count > 0 THEN Ones(dice_count) ELSE <<>>)
            /\ app_roll_count' = 0
            /\ notification' = "reset"
            /\ UNCHANGED <<dice_count, selected_die_index, locked_dice>>
    /\ UNCHANGED <<is_rolling, mounted, dice_widgets, roll_state>>
    /\ UNCHANGED calls

action_reset_dice ==
    /\ mounted
    /\ returned_early' = is_rolling
    /\ IF is_rolling
       THEN UNCHANGED <<session, stats, notification>>
       ELSE /\ SetResults(IF dice_count > 0 THEN Ones(dice_count) ELSE <<>>)
            /\ app_roll_count' = 0
            /\ locked_dice' = {}
            /\ notification' = "reset"
            /\ UNCHANGED <<dice_count, selected_die_index>>
    /\ UNCHANGED <<is_rolling, mounted, dice_widgets, roll_state>>
    /\ UNCHANGED calls

\* --------------------------------------------- navigation and lock actions
Directions == {"up", "down", "left", "right"}

\* new_index with a grid of four columns from four dice on
NavigateIndexFourColumns(current, count, direction) ==
    LET cols == IF count < 4 THEN cols_map(count) ELSE 4
    IN  CASE direction = "up"    -> Max(0, current - cols)
          [] direction = "down"  -> Min(count - 1, current + cols)
          [] direction = "left"  -> Max(0, current - 1)
          [] direction = "right" -> Min(count - 1, current + 1)
          [] OTHER               -> current

\* new_index of action_navigate_dice
NavigateIndex(current, count, direction) ==
    LET cols == IF count = 0 THEN 1 ELSE cols_map(count)
    IN  CASE direction = "up"    -> Max(0, current - cols)
          [] direction = "down"  -> Min(count - 1, current + cols)
          [] direction = "left"  -> Max(0, current - 1)
          [] direction = "right" -> Min(count - 1, current + 1)
          [] OTHER               -> current

action_navigate_dice(direction) ==
    /\ mounted
    /\ returned_early' = (is_rolling \/ dice_count = 0)
    /\ IF is_rolling \/ dice_count = 0
       THEN UNCHANGED selected_die_index
       ELSE selected_die_index' =
                NavigateIndex(selected_die_index, dice_count, direction)
    /\ UNCHANGED <<dice_count, current_results, locked_dice, app_roll_count,
                   stats, is_rolling, mounted, dice_widgets, notification,
                   roll_state>>
    /\ UNCHANGED calls

\* a toggle that only ever adds the index
ToggleLockedAddOnly(locked, idx) == locked \cup {idx}

\* new_locked_set of action_toggle_lock
ToggleLocked(locked, idx) ==
    IF idx \in locked THEN locked \ {idx} ELSE locked \cup {idx}

\* action_toggle_lock without its is_rolling check
action_toggle_lock_unguarded ==
    /\ mounted
    /\ returned_early' = (dice_count = 0)
    /\ IF dice_count = 0
       THEN UNCHANGED <<locked_dice, notification>>
       ELSE /\ locked_dice' = ToggleLocked(locked_dice, selected_die_index)
            /\ notification' = IF selected_die_index \in locked_dice
                               THEN "die_unlocked" ELSE "die_locked"
    /\ UNCHANGED <<dice_count, current_results, selected_die_index,
                   app_roll_count, stats, is_rolling, mounted, dice_widgets,
                   roll_state>>
    /\ UNCHANGED calls

action_toggle_lock ==
    /\ mounted
    /\ returned_early' = (is_rolling \/ dice_count = 0)
    /\ IF is_rolling \/ dice_count = 0
       THEN UNCHANGED <<locked_dice, notification>>
       ELSE /\ locked_dice' = ToggleLocked(locked_dice, selected_die_index)
            /\ notification' = IF selected_die_index \in locked_dice
                               THEN "die_unlocked" ELSE "die_locked"
    /\ UNCHANGED <<dice_count, current_results, selected_die_index,
                   app_roll_count, stats, is_rolling, mounted, dice_widgets,
                   roll_state>>
    /\ UNCHANGED calls

\* action_lock_all adding the indices to the set instead of replacing it
action_lock_all_adding ==
    /\ mounted
    /\ returned_early' = (is_rolling \/ dice_count = 0)
    /\ IF is_rolling \/ dice_count = 0
       THEN UNCHANGED <<locked_dice, notification>>
       ELSE LET new_locked_set == locked_dice \cup (0..(dice_count - 1))
            IN  IF new_locked_set # locked_dice
                THEN /\ locked_dice' = new_locked_set
                     /\ notification' = "all_locked"
                ELSE /\ notification' = "all_already_locked"
                     /\ UNCHANGED locked_dice
    /\ UNCHANGED <<dice_count, current_results, selected_die_index,
                   app_roll_count, stats, is_rolling, mounted, dice_widgets,
                   roll_state>>
    /\ UNCHANGED calls

action_lock_all ==
    /\ mounted
    /\ returned_early' = (is_rolling \/ dice_count = 0)
    /\ IF is_rolling \/ dice_count = 0
       THEN UNCHANGED <<locked_dice, notification>>
       ELSE LET new_locked_set == 0..(dice_count - 1)
            IN  IF new_locked_set # locked_dice
                THEN /\ locked_dice' = new_locked_set
                     /\ notification' = "all_locked"
                ELSE /\ notification' = "all_already_locked"
                     /\ UNCHANGED locked_dice
    /\ UNCHANGED <<dice_count, current_results, selected_die_index,
                   app_roll_count, stats, is_rolling, mounted, dice_widgets,
                   roll_state>>
    /\ UNCHANGED calls

\* action_unlock_all clearing the roll count with the locks
action_unlock_all_clearing_count ==
    /\ mounted
    /\ returned_early' = (is_rolling \/ dice_count = 0)
    /\ IF is_rolling \/ dice_count = 0
       THEN UNCHANGED <<locked_dice, notification, app_roll_count>>
       ELSE /\ app_roll_count' = 0
            /\ IF locked_dice # {}
               THEN /\ locked_dice' = {}
                    /\ notification' = "all_unlocked"
               ELSE /\ notification' = "all_already_unlocked"
                    /\ UNCHANGED locked_dice
    /\ UNCHANGED <<dice_count, current_results, selected_die_index,
                   stats, is_rolling, mounted, dice_widgets, roll_state>>
    /\ UNCHANGED calls

action_unlock_all ==
    /\ mounted
    /\ returned_early' = (is_rolling \/ dice_count = 0)
    /\ IF is_rolling \/ dice_count = 0
       THEN UNCHANGED <<locked_dice, notification>>
       ELSE IF locked_dice # {}
            THEN /\ locked_dice' = {}
                 /\ notification' = "all_unlocked"
            ELSE /\ notification' = "all_already_unlocked"
                 /\ UNCHANGED locked_dice
    /\ UNCHANGED <<dice_count, current_results, selected_die_index,
                   app_roll_count, stats, is_rolling, mounted, dice_widgets,
                   roll_state>>
    /\ UNCHANGED calls

\* ------------------------------------------------------------------ rolling
\* unlocked_indices: the indices i..count-1 that are not locked, ascending
RECURSIVE UnlockedFrom(_, _, _)
UnlockedFrom(i, count, locked) ==
    IF i >= count THEN <<>>
    ELSE (IF i \in locked THEN <<>> ELSE <<i>>) \o UnlockedFrom(i + 1, count, locked)

\* unlocked_indices that ignore the locks
UnlockedIndicesAll(count, locked) == UnlockedFrom(0, count, {})

UnlockedIndices(count, locked) == UnlockedFrom(0, count, locked)

\* a guard that never finds all dice locked
NothingToRollNever(indices) == FALSE

\* the guard "if not unlocked_indices"
NothingToRoll(indices) == indices = <<>>

\* draws of secrets.randbelow(6) the model explores: the least and the greatest
Draws == {0, FACES - 1}

\* animate_single_die returning the draw itself, 0..5
animate_single_die_zero_based(index, widgets, draw) ==
    IF ~(0 <= index /\ index < widgets) THEN 1 ELSE draw

\* value returned by animate_single_die for a draw of randbelow
animate_single_die(index, widgets, draw) ==
    IF ~(0 <= index /\ index < widgets) THEN 1 ELSE draw + 1

\* tasks created by animate_all_dice, one per index
CreateTasks(indices) ==
    [k \in 1..Len(indices) |-> [st |-> "running", result |-> 0]]

Running(tk) == {k \in DOMAIN tk : tk[k].st = "running"}
Failed(tk)  == {k \in DOMAIN tk : tk[k].st = "failed"}

\* a gather that returns as soon as one task has returned
GatherReturnsAny(tk) == \E k \in DOMAIN tk : tk[k].st = "done"

\* asyncio.gather returns once every task has returned
GatherReturns(tk) == \A k \in DOMAIN tk : tk[k].st = "done"

\* asyncio.gather raises as soon as one task has raised
GatherRaises(tk) == Failed(tk) # {}

\* a gather that returns the faces in the reverse order of the tasks
GatherResultsReversed(tk) == [k \in DOMAIN tk |-> tk[Len(tk) + 1 - k].result]

\* the list asyncio.gather returns, in the order of the tasks
GatherResults(tk) == [k \in DOMAIN tk |-> tk[k].result]

\* the merge loop of the results phase, from position k on
RECURSIVE MergeFrom(_, _, _, _, _)
MergeFrom(k, list, indices, rolled, count) ==
    IF k > Len(indices) THEN list
    ELSE MergeFrom(k + 1,
                   IF 0 <= indices[k] /\ indices[k] < count
                   THEN [list EXCEPT ![indices[k] + 1] = rolled[k]]
                   ELSE list,
                   indices, rolled, count)

MergeResults(list, indices, rolled, count) ==
    MergeFrom(1, list, indices, rolled, count)

\* a roll counter that counts every die rolled
IncrementRollCountPerDie(count, indices) == count + Len(indices)

\* self.app_roll_count += 1 after a roll of the dice at indices
IncrementRollCount(count, indices) == count + 1

\* action_roll_unlocked_dice from its call to the await of animate_all_dice
action_roll_unlocked_dice ==
    /\ mounted
    /\ returned_early' = is_rolling
    /\ IF is_rolling
       THEN UNCHANGED <<is_rolling, notification, roll_state>>
       ELSE IF dice_count = 0
            THEN /\ notification' = "no_dice_to_roll"
                 /\ UNCHANGED <<is_rolling, roll_state>>
            ELSE IF NothingToRoll(UnlockedIndices(dice_count, locked_dice))
                 THEN /\ notification' = "all_dice_locked"
                      /\ UNCHANGED <<is_rolling, roll_state>>
                 ELSE /\ app_roll_count < MaxRolls
                      /\ is_rolling' = TRUE
                      /\ notification' = "rolling"
                      /\ unlocked_indices' = UnlockedIndices(dice_count, locked_dice)
                      /\ tasks' = CreateTasks(unlocked_indices')
                      /\ rolls_in_flight' = rolls_in_flight + 1
                      /\ UNCHANGED orphans
    /\ UNCHANGED <<session, stats, mounted, dice_widgets>>
    /\ UNCHANGED calls

\* task k of the roll in flight ends its frames and returns its final face
TaskFinish(k) ==
    /\ k \in Running(tasks)
    /\ \E draw \in Draws :
          tasks' = [tasks EXCEPT ![k] =
                       [st |-> "done",
                        result |-> animate_single_die(unlocked_indices[k],
                                                      dice_widgets, draw)]]
    /\ UNCHANGED <<session, stats, is_rolling, mounted, dice_widgets,
                   notification, returned_early, unlocked_indices, orphans,
                   rolls_in_flight>>
    /\ UNCHANGED calls

\* task k of the roll in flight raises
TaskFail(k) ==
    /\ k \in Running(tasks)
    /\ orphans + Cardinality(Running(tasks) \ {k}) <= MaxOrphans
    /\ tasks' = [tasks EXCEPT ![k] = [st |-> "failed", result |-> 0]]
    /\ UNCHANGED <<session, stats, is_rolling, mounted, dice_widgets,
                   notification, returned_early, unlocked_indices, orphans,
                   rolls_in_flight>>
    /\ UNCHANGED calls

\* the results phase: the await returned the list of faces
RollCompleted ==
    /\ rolls_in_flight > 0
    /\ tasks # <<>>
    /\ GatherReturns(tasks)
    /\ returned_early' = FALSE
    /\ LET results_for_unlocked_dice == GatherResults(tasks)
           new_results_list ==
               IF Len(current_results) # dice_count
               THEN Ones(dice_count) ELSE current_results
           rolled_at_least_one ==
               \E k \in 1..Len(unlocked_indices) :
                   0 <= unlocked_indices[k] /\ unlocked_indices[k] < dice_count
       IN  IF Len(unlocked_indices) = Len(results_for_unlocked_dice)
           THEN IF rolled_at_least_one
                THEN /\ SetResults(MergeResults(new_results_list, unlocked_indices,
                                                results_for_unlocked_dice, dice_count))
                     /\ app_roll_count' = IncrementRollCount(app_roll_count, unlocked_indices)
                     /\ UNCHANGED notification
                ELSE /\ notification' = "no_dice_rolled"
                     /\ UNCHANGED <<current_results, stats, app_roll_count>>
           ELSE /\ notification' = "result_index_mismatch"
                /\ UNCHANGED <<current_results, stats, app_roll_count>>
    /\ is_rolling' = FALSE
    /\ unlocked_indices' = <<>>
    /\ tasks' = <<>>
    /\ rolls_in_flight' = rolls_in_flight - 1
    /\ UNCHANGED <<dice_count, locked_dice, selected_die_index, mounted,
                   dice_widgets, orphans>>
    /\ UNCHANGED calls

\* an except branch that writes the faces of the tasks that did return
RollFailedPartialCommit ==
    /\ rolls_in_flight > 0
    /\ GatherRaises(tasks)
    /\ returned_early' = FALSE
    /\ notification' = "animation_error"
    /\ is_rolling' = FALSE
    /\ SetResults([i \in 1..Len(current_results) |->
                     IF \E k \in DOMAIN tasks :
                           unlocked_indices[k] = i - 1 /\ tasks[k].st = "done"
                     THEN tasks[CHOOSE k \in DOMAIN tasks :
                                   unlocked_indices[k] = i - 1].result
                     ELSE current_results[i]])
    /\ orphans' = orphans + Cardinality(Running(tasks))
    /\ unlocked_indices' = <<>>
    /\ tasks' = <<>>
    /\ rolls_in_flight' = rolls_in_flight - 1
    /\ UNCHANGED <<dice_count, locked_dice, selected_die_index, app_roll_count,
                   mounted, dice_widgets>>
    /\ UNCHANGED calls

\* an except branch that does not reset is_rolling
RollFailedKeepsRolling ==
    /\ rolls_in_flight > 0
    /\ GatherRaises(tasks)
    /\ returned_early' = FALSE
    /\ notification' = "animation_error"
    /\ orphans' = orphans + Cardinality(Running(tasks))
    /\ unlocked_indices' = <<>>
    /\ tasks' = <<>>
    /\ rolls_in_flight' = rolls_in_flight - 1
    /\ UNCHANGED <<session, stats, is_rolling, mounted, dice_widgets>>
    /\ UNCHANGED calls

\* the except branch: the await raised; the other tasks are left running
RollFailed ==
    /\ rolls_in_flight > 0
    /\ GatherRaises(tasks)
    /\ returned_early' = FALSE
    /\ notification' = "animation_error"
    /\ is_rolling' = FALSE
    /\ orphans' = orphans + Cardinality(Running(tasks))
    /\ unlocked_indices' = <<>>
    /\ tasks' = <<>>
    /\ rolls_in_flight' = rolls_in_flight - 1
    /\ UNCHANGED <<session, stats, mounted, dice_widgets>>
    /\ UNCHANGED calls

\* a task left running by a failed roll ends; its result is dropped
OrphanEnds ==
    /\ orphans > 0
    /\ orphans' = orphans - 1
    /\ UNCHANGED <<session, stats, is_rolling, mounted, dice_widgets,
                   notification, returned_early, unlocked_indices, tasks,
                   rolls_in_flight>>
    /\ UNCHANGED calls

\* ------------------------------------------------------------ specification
Next ==
    \/ Mount
    \/ action_add_die
    \/ action_remove_die
    \/ \E count \in CountInputs : action_set_dice_count(count)
    \/ action_reset_dice
    \/ \E direction \in Directions : action_navigate_dice(direction)
    \/ action_toggle_lock
    \/ action_lock_all
    \/ action_unlock_all
    \/ action_roll_unlocked_dice
    \/ \E k \in DOMAIN tasks : TaskFinish(k)
    \/ \E k \in DOMAIN tasks : TaskFail(k)
    \/ RollCompleted
    \/ RollFailed
    \/ OrphanEnds

Spec == Init /\ [][Next]_vars

\* The session between rolls with every dice count of MIN_DICE..MAX_DICE:
\* the operations that do not start a roll, with add_die explored up to
\* MAX_DICE and set_dice_count called with every count of AllCounts.
action_add_die_to_max == AddDie(MAX_DICE)

CountNext ==
    \/ Mount
    \/ action_add_die_to_max
    \/ action_remove_die
    \/ \E count \in AllCounts : action_set_dice_count(count)
    \/ action_reset_dice
    \/ \E direction \in Directions : action_navigate_dice(direction)
    \/ action_toggle_lock
    \/ action_lock_all
    \/ action_unlock_all

CountSpec == Init /\ [][CountNext]_vars

\* ------------------------------------------- direct calls of the functions
\* results lists of at most MaxLen faces
RECURSIVE SeqsUpTo(_, _)
SeqsUpTo(S, n) ==
    IF n = 0 THEN {<<>>}
    ELSE LET shorter == SeqsUpTo(S, n - 1)
         IN  shorter \cup {Append(q, x) : q \in {r \in shorter : Len(r) = n - 1},
                                          x \in S}

ResultsInputs == SeqsUpTo(1..FACES, MaxLen)

\* frequency mappings over any set of faces, the empty mapping included
FrequencyInputs ==
    UNION {[keys -> 0..MaxFreq] : keys \in SUBSET (1..FACES)}

\* dice counts from below 0 to above MAX_DICE
LayoutInputs == (0 - MaxBeyond)..(MAX_DICE + MaxBeyond)

\* the session is not started; one function is about to be called directly
CallInit ==
    /\ ReactiveDefaults
    /\ fn_result = NoCall
    /\ \/ fn_args \in [fn : {"results"}, raised : {FALSE},
                        value : ResultsInputs]
       \/ fn_args \in [fn : {"frequencies"}, raised : {FALSE},
                        value : FrequencyInputs]
       \/ fn_args \in [fn : {"dice_count"}, raised : {FALSE},
                        value : LayoutInputs]

\* the call of fn ends: it raised, or it returned value
Returned(fn, raised, value) ==
    /\ fn_result = NoCall
    /\ fn_result' = [fn |-> fn, raised |-> raised, value |-> value]
    /\ UNCHANGED <<session, stats, is_rolling, mounted, dice_widgets,
                   notification, returned_early, roll_state, fn_args>>

CallCalculateFrequencies ==
    /\ fn_args.fn = "results"
    /\ Returned("calculate_frequencies", FALSE,
                calculate_frequencies(fn_args.value))

\* sum(self.current_results) and the frequency string of update_stats_display
CallUpdateStatsDisplay ==
    /\ fn_args.fn = "results"
    /\ Returned("update_stats_display", FALSE,
                update_stats_display(fn_args.value))

CallFormatFrequencies ==
    /\ fn_args.fn = "frequencies"
    /\ Returned("format_frequencies", FALSE,
                format_frequencies(fn_args.value))

CallGetGridLayoutDimensions ==
    /\ fn_args.fn = "dice_count"
    /\ Returned("get_grid_layout_dimensions",
                GridLayoutRaises(fn_args.value),
                get_grid_layout_dimensions(fn_args.value))

CallNext ==
    \/ CallCalculateFrequencies
    \/ CallUpdateStatsDisplay
    \/ CallFormatFrequencies
    \/ CallGetGridLayoutDimensions

CallSpec == CallInit /\ [][CallNext]_vars

\* every task and the resumption of the roll are scheduled by the event loop
TaskStep == \E k \in DOMAIN tasks : TaskFinish(k) \/ TaskFail(k)
RollResumed == RollCompleted \/ RollFailed

FairSpec ==
    /\ Spec
    /\ WF_vars(TaskStep)
    /\ WF_vars(RollResumed)

TypeOK ==
    /\ dice_count \in MIN_DICE..MAX_DICE
    /\ is_rolling \in BOOLEAN
    /\ mounted \in BOOLEAN
    /\ selected_die_index \in 0..(MAX_DICE - 1)
    /\ locked_dice \subseteq 0..(MAX_DICE - 1)
    /\ app_roll_count \in 0..MaxRolls
    /\ orphans \in 0..MaxOrphans

\* ------------------------------------------------------------------ claims
\* a step of one of the operations the key bindings invoke
PublicOperation ==
    \/ action_add_die
    \/ action_remove_die
    \/ \E count \in CountInputs : action_set_dice_count(count)
    \/ action_reset_dice
    \/ \E direction \in Directions : action_navigate_dice(direction)
    \/ action_toggle_lock
    \/ action_lock_all
    \/ action_unlock_all
    \/ action_roll_unlocked_dice

\* every task of the sequence tk has returned its final face
AllTasksDone(tk) == tk # <<>> /\ \A k \in DOMAIN tk : tk[k].st = "done"
\* some task of the sequence tk has raised
SomeTaskFailed(tk) == \E k \in DOMAIN tk : tk[k].st = "failed"

FacesValid(results) == \A i \in 1..Len(results) : results[i] \in 1..FACES

\* a roll has completed and nothing has been notified since
RollJustCompleted == ~is_rolling /\ notification = "rolling" /\ app_roll_count > 0

\* C1: while is_rolling is true every step of a public operation, a second
\* roll included, leaves dice_count, current_results, locked_dice,
\* selected_die_index, app_roll_count, is_rolling and the tasks of the roll
\* in flight unchanged, and at most one roll is in flight.
C1_RejectedWhileRolling ==
    [][ /\ (is_rolling /\ PublicOperation)
            => UNCHANGED <<session, stats, is_rolling, roll_state>>
        /\ rolls_in_flight' <= 1 ]_vars

C1_Witness ==
    /\ is_rolling
    /\ returned_early
    /\ rolls_in_flight = 1
    /\ Running(tasks) # {}
    /\ locked_dice # {}

\* C2: in every state of the mounted session locked_dice is a subset of
\* 0..dice_count-1.
C2_LockedWithinCount ==
    mounted => locked_dice \subseteq 0..(dice_count - 1)

\* C3: in every state of the mounted session current_results has dice_count
\* elements and each of them is a face 1..6.
C3_ResultsShape ==
    mounted => /\ Len(current_results) = dice_count
               /\ FacesValid(current_results)

C3_Witness ==
    /\ RollJustCompleted
    /\ dice_count > 1
    /\ \E i \in 1..Len(current_results) : current_results[i] = FACES

\* C4: once a task of the roll in flight has raised, no step changes
\* current_results or app_roll_count, the step that sets is_rolling to
\* false notifies the animation error, and the except branch sets
\* is_rolling to false.
C4_FailedRollAtomic ==
    [][ (is_rolling /\ SomeTaskFailed(tasks))
          => /\ current_results' = current_results
             /\ app_roll_count' = app_roll_count
             /\ ~is_rolling' => notification' = "animation_error"
             /\ RollFailed => ~is_rolling' ]_vars

C4_Witness ==
    /\ is_rolling
    /\ SomeTaskFailed(tasks)
    /\ \E k \in DOMAIN tasks :
          /\ tasks[k].st = "done"
          /\ tasks[k].result # current_results[unlocked_indices[k] + 1]

\* C5: during a roll current_results and app_roll_count change only in one
\* step, taken when every task has returned, that ends the roll, writes the
\* face of every task to its die and adds 1 to app_roll_count.
C5_CommitAfterJoin ==
    [][ (is_rolling /\ (current_results' # current_results
                          \/ app_roll_count' # app_roll_count))
          => /\ AllTasksDone(tasks)
             /\ ~is_rolling'
             /\ app_roll_count' = app_roll_count + 1
             /\ \A k \in DOMAIN tasks :
                   current_results'[unlocked_indices[k] + 1] = tasks[k].result ]_vars

C5_Witness ==
    /\ RollJustCompleted
    /\ Cardinality({i \in 1..Len(current_results) : current_results[i] # 1}) >= 2

\* C6: in no state is is_rolling false while a task of an earlier roll is
\* still running.
C6_NoOrphanTasks ==
    ~is_rolling => orphans = 0

\* C7: the step that resumes a roll whose tasks have all returned adds
\* exactly 1 to app_roll_count, leaves every result a face 1..6 and sets
\* is_rolling to false.
C7_RollCountsOnce ==
    [][ (is_rolling /\ AllTasksDone(tasks) /\ RollResumed)
          => /\ app_roll_count' = app_roll_count + 1
             /\ FacesValid(current_results')
             /\ Len(current_results') = dice_count
             /\ ~is_rolling' ]_vars

C7_Witness ==
    /\ RollJustCompleted
    /\ app_roll_count = 1
    /\ dice_count >= 2
    /\ locked_dice = {}

\* C8: no step of a roll changes the result of a die that is locked.
C8_LockedDiceKept ==
    [][ is_rolling
          => \A i \in locked_dice :
                i < Len(current_results)
                  => /\ Len(current_results') = Len(current_results)
                     /\ current_results'[i + 1] = current_results[i + 1] ]_vars

C8_Witness ==
    /\ RollJustCompleted
    /\ \E i \in locked_dice : i < dice_count /\ current_results[i + 1] # 1
    /\ \E j \in 0..(dice_count - 1) : j \notin locked_dice

\* C9: a roll invoked in an idle state with every die locked notifies that
\* all dice are locked, leaves is_rolling false and changes neither the
\* session fields nor the roll state.
C9_AllLockedRollRejected ==
    [][ (/\ action_roll_unlocked_dice
         /\ ~is_rolling
         /\ 0..(dice_count - 1) \subseteq locked_dice)
          => /\ notification' = "all_dice_locked"
             /\ ~is_rolling'
             /\ UNCHANGED <<session, stats, roll_state>> ]_vars

C9_Witness ==
    /\ notification = "all_dice_locked"
    /\ ~is_rolling
    /\ 0..(dice_count - 1) \subseteq locked_dice
    /\ app_roll_count > 0
    /\ \E i \in 1..Len(current_results) : current_results[i] # 1

\* C10: with every task and the resumption of the roll scheduled fairly,
\* a session that is rolling eventually stops rolling.
C10_RollEnds == is_rolling ~> ~is_rolling

C10_Witness ==
    /\ ~is_rolling
    /\ notification = "animation_error"
    /\ orphans = 0

\* a step of add_die, remove_die or set_dice_count, with any count
CountOperation ==
    \/ AddDie(MAX_DICE)
    \/ action_remove_die
    \/ \E count \in AllCounts : action_set_dice_count(count)

\* the faces of old resized to n dice: survivors kept, new slots 1
KeptFaces(old, n) == [i \in 1..n |-> IF i <= Len(old) THEN old[i] ELSE 1]

\* C11 (as stated): a step of add_die, remove_die or set_dice_count that
\* changes dice_count keeps the face of every surviving die, gives every new
\* die the face 1 and drops the tail.
C11_ResizeKeepsFaces ==
    [][ (CountOperation /\ dice_count' # dice_count)
          => current_results' = KeptFaces(current_results, dice_count') ]_vars

\* C11 (amended): a step of add_die, remove_die or set_dice_count that
\* changes dice_count sets current_results to dice_count' faces that are
\* all 1, whatever the faces were, and the statistics to those of the 1s.
C11_ResizeResetsFaces ==
    [][ (CountOperation /\ dice_count' # dice_count)
          => /\ Len(current_results') = dice_count'
             /\ \A i \in 1..dice_count' : current_results'[i] = 1
             /\ current_sum' = dice_count' ]_vars

C11_Witness ==
    /\ mounted
    /\ ~is_rolling
    /\ app_roll_count > 0
    /\ notification \in {"added_die", "removed_die", "set_dice_count"}
    /\ current_sum = dice_count

\* C12: a step of set_dice_count with a count below 1 or above 8 (0 and 9
\* are the counts tried) changes none of dice_count, current_results,
\* locked_dice, selected_die_index, app_roll_count, the statistics and
\* is_rolling, and in an idle state it notifies that the count is out of
\* range.
C12_OutOfRangeRejected ==
    [][ \A count \in AllCounts :
          ((count < 1 \/ count > 8) /\ action_set_dice_count(count))
            => /\ UNCHANGED <<session, stats, is_rolling, roll_state>>
               /\ ~is_rolling => notification' = "count_out_of_range" ]_vars

C12_Witness ==
    /\ notification = "count_out_of_range"
    /\ ~is_rolling
    /\ app_roll_count > 0
    /\ locked_dice # {}
    /\ \E i \in 1..Len(current_results) : current_results[i] # 1

\* C13: in every state reached by add_die, remove_die, set_dice_count with
\* any count of 0..9, reset, navigation and the lock operations,
\* 1 <= dice_count <= 8.
C13_CountInRange == 1 <= dice_count /\ dice_count <= 8

C13_Witness ==
    /\ dice_count = 8
    /\ notification = "maximum_dice"
    /\ locked_dice # {}

\* C14: in every state 0 <= selected_die_index < dice_count; a count change
\* that shrinks the count to n sets selected_die_index to
\* min(selected_die_index, n - 1), and one that grows the count leaves
\* selected_die_index unchanged.
C14_SelectedInRange ==
    /\ [](0 <= selected_die_index /\ selected_die_index < dice_count)
    /\ [][ (CountOperation /\ dice_count' # dice_count)
             => selected_die_index' =
                  IF dice_count' < dice_count
                  THEN (IF selected_die_index < dice_count' - 1
                        THEN selected_die_index ELSE dice_count' - 1)
                  ELSE selected_die_index ]_vars

C14_Witness ==
    /\ notification = "set_dice_count"
    /\ dice_count = 3
    /\ selected_die_index = 2
    /\ locked_dice = 0..7

\* C15: a step of set_dice_count with the count equal to dice_count, in an
\* idle state, changes nothing: the faces (those of earlier rolls
\* included), locked_dice, selected_die_index, app_roll_count and the
\* statistics are unchanged and nothing is notified, so a second
\* set_dice_count with the same count leaves the state of the first.
C15_SameCountNoOp ==
    [][ \A count \in AllCounts :
          (count = dice_count /\ ~is_rolling /\ action_set_dice_count(count))
            => UNCHANGED <<session, stats, is_rolling, roll_state,
                           notification>> ]_vars

C15_Witness ==
    /\ mounted
    /\ ~is_rolling
    /\ dice_count = 2
    /\ app_roll_count > 0
    /\ locked_dice # {}
    /\ selected_die_index = 1
    /\ \E i \in 1..Len(current_results) : current_results[i] # 1

\* C16: add_die with 8 dice notifies that the maximum is reached and
\* remove_die with 1 die notifies that the minimum is reached, neither
\* changing any session field; below 8 dice every add_die adds exactly one
\* die, so from 1 die seven calls reach 8 and the eighth is the no-op.
C16_LimitsAreNoOps ==
    [][ /\ (AddDie(MAX_DICE) /\ ~is_rolling /\ dice_count = 8)
            => /\ notification' = "maximum_dice"
               /\ UNCHANGED <<session, stats, is_rolling>>
        /\ (AddDie(MAX_DICE) /\ ~is_rolling /\ dice_count < 8)
            => /\ notification' = "added_die"
               /\ dice_count' = dice_count + 1
        /\ (action_remove_die /\ ~is_rolling /\ dice_count = 1)
            => /\ notification' = "minimum_dice"
               /\ UNCHANGED <<session, stats, is_rolling>> ]_vars

C16_Witness ==
    /\ dice_count = 8
    /\ notification = "maximum_dice"
    /\ selected_die_index = 7
    /\ locked_dice = {7}

\* C17: a step of reset in an idle state sets every face to 1, locked_dice
\* to the empty set and app_roll_count to 0, and leaves dice_count and
\* selected_die_index unchanged.
C17_ResetClearsSession ==
    [][ (action_reset_dice /\ ~is_rolling)
          => /\ Len(current_results') = dice_count
             /\ \A i \in 1..dice_count : current_results'[i] = 1
             /\ locked_dice' = {}
             /\ app_roll_count' = 0
             /\ UNCHANGED <<dice_count, selected_die_index>> ]_vars

C17_Witness ==
    /\ notification = "reset"
    /\ dice_count = 2
    /\ selected_die_index = 1
    /\ locked_dice = {}
    /\ app_roll_count = 0
    /\ current_results = <<1, 1>>

\* C18: with 1 to 8 dice, the selection at s and c the number of columns
\* get_grid_layout_dimensions gives for dice_count, a navigation step in an
\* idle state moves the selection to max(0, s - c) for up,
\* min(dice_count - 1, s + c) for down, max(0, s - 1) for left and
\* min(dice_count - 1, s + 1) for right.
C18_NavigationMoves ==
    [][ \A direction \in Directions :
          (action_navigate_dice(direction) /\ ~is_rolling)
            => LET s == selected_die_index
                   c == get_grid_layout_dimensions(dice_count)[1]
                   last == dice_count - 1
               IN  selected_die_index' =
                     CASE direction = "up" ->
                            IF s - c > 0 THEN s - c ELSE 0
                       [] direction = "down" ->
                            IF s + c < last THEN s + c ELSE last
                       [] direction = "left" ->
                            IF s - 1 > 0 THEN s - 1 ELSE 0
                       [] direction = "right" ->
                            IF s + 1 < last THEN s + 1 ELSE last ]_vars

C18_Witness ==
    /\ dice_count = 7
    /\ selected_die_index = 4
    /\ locked_dice = {}
    /\ notification = "added_die"

\* C19: a step of toggle_lock in an idle state adds selected_die_index to
\* locked_dice if it was absent and removes it if it was present, and
\* leaves the membership of every other index unchanged.
C19_ToggleFlipsSelected ==
    [][ (action_toggle_lock /\ ~is_rolling)
          => /\ (selected_die_index \in locked_dice')
                   <=> (selected_die_index \notin locked_dice)
             /\ locked_dice' \ {selected_die_index}
                   = locked_dice \ {selected_die_index} ]_vars

C19_Witness ==
    /\ notification = "die_unlocked"
    /\ dice_count = 3
    /\ selected_die_index = 1
    /\ locked_dice = {0, 2}

\* C20: a step of lock_all in an idle state makes locked_dice exactly
\* {0, ..., dice_count - 1}, whatever it held before, and a step of
\* unlock_all makes it exactly the empty set.
C20_LockAllUnlockAll ==
    [][ /\ (action_lock_all /\ ~is_rolling)
            => locked_dice' = {i \in 0..(MAX_DICE - 1) : i < dice_count}
        /\ (action_unlock_all /\ ~is_rolling)
            => locked_dice' = {} ]_vars

C20_Witness ==
    /\ notification = "all_locked"
    /\ dice_count = 2
    /\ locked_dice = {0, 1}
    /\ selected_die_index = 1

\* C21: the state the session is in once it is mounted, before any operation,
\* is dice_count = 1, current_results = [1], locked_dice empty,
\* selected_die_index = 0, is_rolling false and app_roll_count = 0, it
\* satisfies the invariants of the data model, and no operation runs before
\* the session is mounted.
C21_InitialState ==
    [][ /\ Mount
            => /\ dice_count' = 1
               /\ current_results' = <<1>>
               /\ locked_dice' = {}
               /\ selected_die_index' = 0
               /\ is_rolling' = FALSE
               /\ app_roll_count' = 0
               /\ 1 <= dice_count' /\ dice_count' <= 8
               /\ Len(current_results') = dice_count'
               /\ \A i \in 1..Len(current_results') :
                      current_results'[i] \in 1..6
               /\ \A i \in locked_dice' : 0 <= i /\ i < dice_count'
               /\ 0 <= selected_die_index'
               /\ selected_die_index' < dice_count'
               /\ current_sum' = 1
        /\ PublicOperation => mounted ]_vars

C21_Witness ==
    /\ mounted
    /\ notification = "none"
    /\ dice_count = 1
    /\ current_results = <<1>>
    /\ current_sum = 1
    /\ locked_dice = {}
    /\ selected_die_index = 0
    /\ app_roll_count = 0
    /\ ~is_rolling

\* number of positions of results that hold face
Occurrences(results, face) ==
    Cardinality({i \in 1..Len(results) : results[i] = face})

\* C22: for every results list of faces 1..6, calculate_frequencies returns
\* a mapping whose keys are exactly 1..6, each with the number of
\* occurrences of the face (0 when absent), the counts summing to
\* len(results); the sum computed by update_stats_display is the arithmetic
\* sum, 0 for the empty list; [1,2,2,6] gives {1:1,2:2,3:0,4:0,5:0,6:1} and
\* the sum 11.
C22_FrequenciesAndSum ==
    /\ fn_result.fn = "calculate_frequencies"
         => LET results == fn_args.value
                f == fn_result.value
            IN  /\ DOMAIN f = 1..6
                /\ \A face \in 1..6 : f[face] = Occurrences(results, face)
                /\ f[1] + f[2] + f[3] + f[4] + f[5] + f[6] = Len(results)
                /\ results = <<1, 2, 2, 6>> => f = <<1, 2, 0, 0, 0, 1>>
    /\ fn_result.fn = "update_stats_display"
         => LET results == fn_args.value
                total == fn_result.value[1]
            IN  /\ total = 1 * Occurrences(results, 1)
                              + 2 * Occurrences(results, 2)
                              + 3 * Occurrences(results, 3)
                              + 4 * Occurrences(results, 4)
                              + 5 * Occurrences(results, 5)
                              + 6 * Occurrences(results, 6)
                /\ results = <<>> => total = 0
                /\ results = <<1, 2, 2, 6>> => total = 11

C22_Witness ==
    /\ fn_result.fn = "calculate_frequencies"
    /\ fn_args.value = <<1, 2, 2, 6>>
    /\ fn_result.value = <<1, 2, 0, 0, 0, 1>>

\* the faces of the mapping freq with a count above 0
ListedFaces(freq) == {face \in DOMAIN freq : freq[face] > 0}

\* C23: format_frequencies returns the sentinel "No results yet" when the
\* mapping is empty or every count is 0; otherwise it returns one entry
\* "<count>x<symbol of the face>" for exactly the faces with a count above
\* 0, in ascending order of the face, joined by " | ".
C23_FormatFrequencies ==
    fn_result.fn = "format_frequencies"
      => LET freq == fn_args.value
             out == fn_result.value
             listed == ListedFaces(freq)
             rank(face) == Cardinality({g \in listed : g < face})
         IN  IF listed = {}
             THEN out = <<"No results yet">>
             ELSE /\ Len(out) = 4 * Cardinality(listed) - 1
                  /\ \A face \in listed :
                         /\ out[4 * rank(face) + 1] = IntStr(freq[face])
                         /\ out[4 * rank(face) + 2] = "x"
                         /\ out[4 * rank(face) + 3] = dice_emojis[face]
                         /\ rank(face) > 0 => out[4 * rank(face)] = " | "

C23_Witness ==
    /\ fn_result.fn = "format_frequencies"
    /\ fn_args.value = <<1, 2, 0, 0, 0, 1>>
    /\ fn_result.value = <<"1", "x", "d1", " | ", "2", "x", "d2", " | ",
                            "1", "x", "d6">>

\* the layouts the specification lists for 1..8 dice
ListedLayouts ==
    <<<<1, 1>>, <<2, 1>>, <<3, 1>>, <<2, 2>>, <<3, 2>>, <<3, 2>>, <<4, 2>>,
      <<4, 2>>>>

C25_StatsAgree ==
    ~is_rolling
      => /\ current_sum = 1 * Occurrences(current_results, 1)
                            + 2 * Occurrences(current_results, 2)
                            + 3 * Occurrences(current_results, 3)
                            + 4 * Occurrences(current_results, 4)
                            + 5 * Occurrences(current_results, 5)
                            + 6 * Occurrences(current_results, 6)
         /\ current_frequencies_str =
               format_frequencies(calculate_frequencies(current_results))

C25_Witness ==
    /\ RollJustCompleted
    /\ dice_count = 2
    /\ current_results = <<6, 1>>
    /\ current_sum = 7
    /\ current_frequencies_str = <<"1", "x", "d1", " | ", "1", "x", "d6">>

\* C26: for every dice count of 1..8 the session reaches, the number of
\* columns action_navigate_dice looks up in its cols_map equals the columns
\* of get_grid_layout_dimensions for that count.
C26_ColumnsAgree ==
    dice_count \in 1..8
      => cols_map(dice_count) = get_grid_layout_dimensions(dice_count)[1]

C26_Witness ==
    /\ mounted
    /\ dice_count = 4
    /\ selected_die_index = 2
    /\ cols_map(dice_count) = 2
    /\ notification = "set_dice_count"

\* C27: a roll that starts creates exactly one task per index that is not
\* locked at that moment, in ascending order of the index, and none for a
\* locked index; when the roll completes, the face written for each rolled
\* die is the face returned by the task created for that die, in whatever
\* order the tasks ended.
C27_OneTaskPerUnlockedDie ==
    [][ /\ (action_roll_unlocked_dice /\ ~is_rolling /\ is_rolling')
            => LET unlocked == (0..(dice_count - 1)) \ locked_dice
               IN  /\ Len(tasks') = Cardinality(unlocked)
                   /\ Len(unlocked_indices') = Cardinality(unlocked)
                   /\ {unlocked_indices'[k] : k \in DOMAIN tasks'} = unlocked
                   /\ \A j, k \in DOMAIN tasks' :
                          j < k => unlocked_indices'[j] < unlocked_indices'[k]
                   /\ \A k \in DOMAIN tasks' : tasks'[k].st = "running"
        /\ RollCompleted
            => \A k \in DOMAIN tasks :
                   current_results'[unlocked_indices[k] + 1] = tasks[k].result
      ]_vars

C27_Witness ==
    /\ RollJustCompleted
    /\ dice_count = 2
    /\ locked_dice = {}
    /\ current_results = <<1, 6>>
    /\ app_roll_count = 1

\* C28: a step of navigation, toggle_lock, lock_all or unlock_all leaves
\* dice_count, current_results and app_roll_count unchanged, and a step of
\* navigation leaves locked_dice unchanged too; app_roll_count changes only
\* by +1 when a roll completes and to 0 on a reset.
C28_FrameOfSelectionAndLocks ==
    [][ /\ ( \/ \E direction \in Directions : action_navigate_dice(direction)
             \/ action_toggle_lock
             \/ action_lock_all
             \/ action_unlock_all )
            => UNCHANGED <<dice_count, current_results, app_roll_count>>
        /\ (\E direction \in Directions : action_navigate_dice(direction))
            => UNCHANGED locked_dice
        /\ app_roll_count' # app_roll_count
            => \/ RollCompleted /\ app_roll_count' = app_roll_count + 1
               \/ action_reset_dice /\ app_roll_count' = 0 ]_vars

C28_Witness ==
    /\ ~is_rolling
    /\ notification = "all_unlocked"
    /\ app_roll_count = 1
    /\ dice_count = 2
    /\ selected_die_index = 1
    /\ \E i \in 1..Len(current_results) : current_results[i] # 1

\* C29: right after a step of add_die or set_dice_count that grows the
\* count, no index from the old count up to the new count is in
\* locked_dice, whatever locks, shrinks and grows came before.
C29_NewDieUnlocked ==
    [][ (CountOperation /\ dice_count' > dice_count)
          => \A i \in dice_count..(dice_count' - 1) : i \notin locked_dice'
      ]_vars

\* C30: a roll attempted in an idle state never notifies that there are no
\* dice to roll: with every die locked it is rejected with the notification
\* that all dice are locked, and with at least one unlocked die it enters
\* the rolling state.
C30_NoDiceUnreachable ==
    [][ (action_roll_unlocked_dice /\ ~is_rolling)
          => /\ notification' # "no_dice_to_roll"
             /\ IF (0..(dice_count - 1)) \ locked_dice = {}
                THEN notification' = "all_dice_locked" /\ ~is_rolling'
                ELSE is_rolling' /\ tasks' # <<>> ]_vars

C30_Witness ==
    /\ is_rolling
    /\ notification = "rolling"
    /\ dice_count = 2
    /\ locked_dice = {1}
    /\ Len(tasks) = 1
    /\ app_roll_count = 0

====
